---- MODULE Spec2Model ----
(***************************************************************************)
(* Model of the asynchronous computation orchestrator of the remote-sensing *)
(* platform (environment/tasks.py), the rows it persists                     *)
(* (environment/models.py) and the API action that enqueues it               *)
(* (environment/views.py, environment/serializers.py).                       *)
(*                                                                           *)
(* Jobs run on task-queue workers and interleave freely; every database      *)
(* statement is atomic, and statements of one job that touch only rows       *)
(* private to that job are merged with the neighbouring statement.           *)
(***************************************************************************)
EXTENDS Integers, Sequences, FiniteSets, TLC

\* ------------------------------------------------------------------ bounds
NumImages == 1
MaxJobs == 2
NumUsers == 2
MaxUploads == 2

Images == 1..NumImages
\* an image id that references no RemoteSensingImage row
MissingImage == NumImages + 1
ImageIds == Images \cup {MissingImage}
Jobs == 1..MaxJobs

\* ------------------------------------------------------- program constants
\* EcologicalIndex.INDEX_TYPE_CHOICES (the nine known codes)
INDEX_TYPE_CHOICES ==
    {"ndvi", "ndwi", "ndbi", "ndsi", "rsei", "wetness", "dryness", "heat", "greenness"}

\* the if/elif chain of calculate_ecological_indices: the types it dispatches
SupportedTypes ==
    {"ndvi", "ndwi", "ndbi", "ndsi", "wetness", "dryness", "heat", "greenness"}

rsei_components == {"greenness", "wetness", "dryness", "heat"}

TASK_STATUS_CHOICES == {"pending", "processing", "completed", "failed", "cancelled"}

\* ---------------------------------------------------------- input domains
\* What the raster file of an image looks like to Engine A.
\*   unreadable : rasterio cannot open it (load_image returns False)
\*   bands4     : 4 bands (Blue, Green, Red, NIR)
\*   bands6     : 6 well-formed bands
\*   bands6_nodata : 6 bands, but no pixel is valid in all four components
RasterKinds == {"unreadable", "bands4", "bands6", "bands6_nodata"}

L5 == <<"ndvi", "greenness", "wetness", "dryness", "heat">>
IndexLists == {L5, <<"rsei">>, <<"ndvi", "ndvi">>}
\* request bodies also carry lists the serializer rejects
RequestLists == {<<"rsei">>, <<"ndvi", "ndvi">>, << >>, <<"evi">>, <<"ndvi", "evi">>}

NoRow == [none |-> TRUE]

\* the pairs of files ecological_indices/{image_id}/{index_type}_result.tif and
\* ..._visualization.png, one pair per image and index type
MediaPaths == Images \X INDEX_TYPE_CHOICES

\* no file at a path (the jobs are numbered from 1)
NoFile == 0

\* calculator.save_result and create_visualization: whatever is at the path is
\* replaced by what job j writes
save_result(files, j, image_id, index_type) ==
    [files EXCEPT ![<<image_id, index_type>>] = j]

VARIABLES
    raster,            \* [Images -> RasterKinds], the uploaded files (never change)
    image_db,          \* remote_sensing_images rows: is_processed, processing_status
    ecological_index,  \* ecological_indices rows
    rsei_result,       \* rsei_results rows
    processing_task,   \* processing_tasks rows, one per job that created it
    job,               \* the job invocations (locals of the two task functions)
    response,          \* the last response of an action of the image view set
    media,             \* MEDIA_ROOT: which job wrote the files of an image and index type last
    cli,               \* one run of the preprocessing command line tool
    user_table,        \* users rows: role, is_superuser (NoRow: no such user)
    image_table,       \* remote_sensing_images rows as the API layer handles them
    child_table,       \* rows of the three tables that hang off an image
    image_response,    \* the last response of the remote-sensing API
    index_data,        \* the raster handed to calculate_statistics
    stats,             \* what calculate_statistics returned
    rsei_input,        \* the component rasters handed to calculate_rsei
    rsei_output,       \* what calculate_rsei returned
    band_files,        \* the band files found in the input directory of the preprocessor
    mosaic,            \* the multi-band file process_*_data wrote
    tc_bands,          \* the bands of the image handed to calculate_tasseled_cap
    tc_results,        \* what calculate_tasseled_cap returned
    landuse_data,      \* the raster loaded by LandUseAnalyzer
    landuse_analysis,  \* what the LandUseAnalyzer methods returned
    gdal_index_data,   \* the raster handed to Engine B's calculate_statistics
    gdal_stats,        \* what Engine B's calculate_statistics returned
    user_session,      \* user_sessions rows (the login audit table)
    auth,              \* the users the client's session is logged in as (none or one)
    account_response   \* the last response of the account API

\* the orchestrator and the two actions in front of it
orchVars == <<raster, image_db, ecological_index, rsei_result, processing_task, job, response, media>>

\* the parts of the platform the orchestrator never touches
\* the variables of the index calculators
calcVars == <<index_data, stats, rsei_input, rsei_output>>

\* the variables of the preprocessor and of the GDAL engine
bandVars == <<band_files, mosaic>>
tcVars == <<tc_bands, tc_results>>
landuseVars == <<landuse_data, landuse_analysis>>
gdalStatsVars == <<gdal_index_data, gdal_stats>>
engineVars == <<bandVars, tcVars, landuseVars, gdalStatsVars>>

restVars == <<cli, calcVars, engineVars, user_table, image_table, child_table, image_response,
              user_session, auth, account_response>>

vars == <<orchVars, restVars>>

\* ----------------------------------------------------------------- helpers
Range(s) == {s[k] : k \in 1..Len(s)}

\* number of bands a raster offers; bands[k] raises IndexError for k >= count
BandCount(kind) == IF kind = "bands4" THEN 4 ELSE 6

\* highest band index (0-based) each calculate_* method reads
MaxBandIndex(t) ==
    CASE t = "ndvi" -> 3
      [] t = "ndwi" -> 3
      [] t = "ndbi" -> 4
      [] t = "ndsi" -> 4
      [] OTHER -> 5

\* calculate_<t>() returns data (TRUE) or None (FALSE, the IndexError is caught)
CalcReturnsData(kind, t) == MaxBandIndex(t) < BandCount(kind)

\* calculate_rsei() returns a result dict (TRUE) or None (FALSE)
RseiReturnsResult(kind) ==
    /\ \A c \in rsei_components : CalcReturnsData(kind, c)
    /\ kind # "bands6_nodata"

IdleJob ==
    [kind |-> "none", pc |-> "idle", image_id |-> MissingImage, indices_list |-> << >>,
     i |-> 0, calculated_indices |-> {}, has_image |-> FALSE, has_task |-> FALSE,
     image |-> NoRow, task |-> NoRow, error |-> "",
     conflicts |-> {}, rsei_conflict |-> FALSE, set_processed |-> FALSE,
     failed_at |-> "none"]

\* no run of the command line tool
NoRun ==
    [pc |-> "none", data_type |-> "none", clip_region |-> FALSE,
     resample_resolution |-> FALSE, success |-> FALSE, output_exists |-> FALSE,
     stages_run |-> {}, stages_failed |-> {}, printed |-> "none", exit_code |-> {}]

\* ------------------------------------------------ users and uploaded images
Users == 1..NumUsers
UploadIds == 1..MaxUploads

\* User.ROLE_CHOICES
ROLE_CHOICES == {"admin", "user", "expert"}

PlainUser == [role |-> "user", is_superuser |-> FALSE, email |-> "a"]

\* the first account is the privileged one (by role or by the superuser flag),
\* or is a plain account too
SeedTables ==
    {[u \in Users |-> IF u = 1 THEN first ELSE PlainUser] :
        first \in {[role |-> "admin", is_superuser |-> FALSE, email |-> "a"],
                   [role |-> "expert", is_superuser |-> TRUE, email |-> "a"],
                   PlainUser}}

\* EcologicalIndexViewSet, RSEIResultViewSet, ProcessingTaskViewSet
ChildTables == {"ecological_index", "rsei_result", "processing_task"}

NoResponse == [action |-> "none", caller |-> 0, code |-> 0, body |-> {}]

CliIdle == cli = NoRun

\* a variable no call has set yet
Unset == [unset |-> TRUE]

\* Python's None, as an argument or a return value
None == [none |-> TRUE]

CalcIdle ==
    /\ index_data = Unset
    /\ stats = Unset
    /\ rsei_input = Unset
    /\ rsei_output = Unset

BandsIdle == band_files = Unset /\ mosaic = Unset
TcIdle == tc_bands = Unset /\ tc_results = Unset
LandUseIdle == landuse_data = Unset /\ landuse_analysis = Unset
GdalStatsIdle == gdal_index_data = Unset /\ gdal_stats = Unset

EngineIdle ==
    /\ BandsIdle
    /\ TcIdle
    /\ LandUseIdle
    /\ GdalStatsIdle

ApiIdle ==
    /\ user_table = [u \in Users |-> PlainUser]
    /\ image_table = [m \in UploadIds |-> NoRow]
    /\ child_table = {}
    /\ image_response = NoResponse

AccountsIdle ==
    /\ user_session = {}
    /\ auth = {}
    /\ account_response = NoResponse

RestIdle ==
    /\ CliIdle
    /\ CalcIdle
    /\ EngineIdle
    /\ ApiIdle
    /\ AccountsIdle

Init ==
    /\ RestIdle
    /\ raster \in [Images -> RasterKinds]
    /\ image_db = [m \in Images |-> [is_processed |-> FALSE, processing_status |-> "pending"]]
    /\ ecological_index = {}
    /\ rsei_result = {}
    /\ processing_task = [j \in Jobs |-> NoRow]
    /\ job = [j \in Jobs |-> IdleJob]
    /\ media = [path \in MediaPaths |-> NoFile]
    /\ response = [action |-> "none", code |-> 0, pk |-> MissingImage, remote_sensing_image_id |-> MissingImage,
                   indices |-> << >>, task_id |-> {}]

\* variant: a table without the unique_together constraint
NoUniqueTogether(image_id, index_type) == FALSE

\* ------------------------------------------------------------ the ORM rows
\* unique_together = ['remote_sensing_image', 'index_type']: the insert of a
\* second row with the same pair is rejected with IntegrityError
ViolatesUniqueTogether(image_id, index_type) ==
    \E r \in ecological_index :
        r.remote_sensing_image = image_id /\ r.index_type = index_type

\* EcologicalIndex.objects.create(...): the row a job inserts at list position k
\* (k = 0 for the RSEI row); the pair <<j, k>> stands for the fresh UUID
NewIndexRow(j, k, image_id, index_type) ==
    [id |-> <<j, k>>, remote_sensing_image |-> image_id, index_type |-> index_type]

\* calculated_indices[index_type], the row the job stored under that key
CalculatedRow(calc, t) == (CHOOSE p \in calc : p[1] = t)[2]
CalculatedTypes(calc) == {p[1] : p \in calc}

\* variant: the greenness and wetness references exchanged
NewRseiResult_Swapped(j, image_id, calc, rsei_id) ==
    [id |-> j, remote_sensing_image |-> image_id,
     greenness |-> CalculatedRow(calc, "wetness"),
     wetness |-> CalculatedRow(calc, "greenness"),
     dryness |-> CalculatedRow(calc, "dryness"),
     heat |-> CalculatedRow(calc, "heat"),
     rsei_result |-> rsei_id]

\* RSEIResult.objects.create(...) with its five foreign keys
NewRseiResult(j, image_id, calc, rsei_id) ==
    [id |-> j, remote_sensing_image |-> image_id,
     greenness |-> CalculatedRow(calc, "greenness"),
     wetness |-> CalculatedRow(calc, "wetness"),
     dryness |-> CalculatedRow(calc, "dryness"),
     heat |-> CalculatedRow(calc, "heat"),
     rsei_result |-> rsei_id]

\* ProcessingTask.objects.create(status='processing'); progress defaults to 0
NewTask ==
    [status |-> "processing", progress |-> 0, error_message |-> "", completed_at |-> "null"]

\* ------------------------------------------------------------- enqueueing
\* job slots are taken in order
FreeSlot(j) == job[j].pc = "idle" /\ \A k \in Jobs : k < j => job[k].pc # "idle"

Enqueued(j, kind, image_id, indices_list) ==
    [IdleJob EXCEPT !.kind = kind, !.pc = "queued", !.image_id = image_id,
                    !.indices_list = indices_list]

\* <task>.delay(...): a message for either task function reaches a worker; the
\* image it names may no longer exist by then
Delay ==
    \E j \in Jobs, image_id \in ImageIds :
        /\ FreeSlot(j)
        /\ \/ \E l \in IndexLists :
                /\ image_id = MissingImage => l = <<"rsei">>
                /\ job' = [job EXCEPT ![j] =
                              Enqueued(j, "calculate_ecological_indices", image_id, l)]
           \/ job' = [job EXCEPT ![j] = Enqueued(j, "calculate_rsei_only", image_id, << >>)]
        /\ UNCHANGED <<raster, image_db, ecological_index, rsei_result, processing_task, response, media, restVars>>

\* ------------------------------------------------- job setup (both tasks)
\* an exception reaches the except block of the task function
Raise(j, message, where) ==
    [job[j] EXCEPT !.pc = "except", !.error = message, !.failed_at = where]

\* the task function is left (return or raise): its locals are gone
Leave(r, pc) ==
    [r EXCEPT !.pc = pc, !.i = 0, !.has_image = FALSE, !.has_task = FALSE,
              !.image = NoRow, !.task = NoRow]

\* RemoteSensingImage.objects.get, ProcessingTask.objects.create, load_image
Setup(j) ==
    /\ job[j].pc = "queued"
    /\ UNCHANGED <<raster, image_db, ecological_index, rsei_result, response, media, restVars>>
    /\ LET id == job[j].image_id IN
       \/ \* the image row does not exist: DoesNotExist; neither 'task' nor 'image'
          \* is bound, so the except block only re-raises
          /\ id \notin Images
          /\ job' = [job EXCEPT ![j] =
                        Leave(Raise(j, "DoesNotExist", "setup"), "raised")]
          /\ UNCHANGED processing_task
       \/ \* ProcessingTask.objects.create(..., celery_task_id=...) raises (the
          \* ProcessingTask model declares no celery_task_id field): 'image' is
          \* bound, 'task' is not
          /\ id \in Images
          /\ job' = [job EXCEPT ![j] =
                        [Raise(j, "task create failed", "setup") EXCEPT
                            !.has_image = TRUE, !.image = image_db[id]]]
          /\ UNCHANGED processing_task
       \/ \* the task row is created, then load_image() returns False
          /\ id \in Images
          /\ raster[id] = "unreadable"
          /\ processing_task' = [processing_task EXCEPT ![j] = NewTask]
          /\ job' = [job EXCEPT ![j] =
                        [Raise(j, "cannot load image", "setup") EXCEPT
                            !.has_image = TRUE, !.image = image_db[id],
                            !.has_task = TRUE, !.task = NewTask]]
       \/ \* setup succeeds
          /\ id \in Images
          /\ raster[id] # "unreadable"
          /\ processing_task' = [processing_task EXCEPT ![j] = NewTask]
          /\ job' = [job EXCEPT ![j] =
                        [@ EXCEPT !.has_image = TRUE, !.image = image_db[id],
                                  !.has_task = TRUE, !.task = NewTask, !.i = 1,
                                  !.pc = IF job[j].kind = "calculate_rsei_only"
                                         THEN "rsei_only"
                                         ELSE IF job[j].indices_list = << >> THEN "finish"
                                         ELSE "loop"]]

\* variant: a loop body without the per-index except
OnIndexError_Propagate == "propagate"

\* ------------------------------- calculate_ecological_indices: the for loop
\* except Exception as e: logger.error(...); continue -- where the job goes
\* after an exception inside one loop iteration
OnIndexError == "continue"

\* variant: the list walked from its last element to its first
ListPosition_Reversed(r) == Len(r.indices_list) + 1 - r.i

\* for i, index_type in enumerate(indices_list): the position of the list that
\* the iteration in progress handles
ListPosition(r) == r.i

\* all(comp in calculated_indices for comp in rsei_components)
AllComponentsCalculated(calc) == rsei_components \subseteq CalculatedTypes(calc)

\* the job record after iteration i of the loop, whatever that iteration did
NextIteration(r) ==
    [r EXCEPT !.i = @ + 1,
              !.pc = IF r.i >= Len(r.indices_list) THEN "finish" ELSE "loop"]

\* one iteration: dispatch on index_type, compute, save the files, insert the row
LoopStep(j) ==
    /\ job[j].pc = "loop"
    /\ UNCHANGED <<raster, image_db, rsei_result, processing_task, response, restVars>>
    /\ LET r == job[j]
           id == r.image_id
           t == r.indices_list[ListPosition(r)]
       IN
       \/ \* else branch: unsupported type, "continue"
          /\ t \notin SupportedTypes
          /\ job' = [job EXCEPT ![j] = NextIteration(r)]
          /\ UNCHANGED <<ecological_index, media>>
       \/ \* index_data is None, "continue"
          /\ t \in SupportedTypes
          /\ ~CalcReturnsData(raster[id], t)
          /\ job' = [job EXCEPT ![j] = NextIteration(r)]
          /\ UNCHANGED <<ecological_index, media>>
       \/ \* the files are written, then the insert is rejected: IntegrityError
          \* inside the try of the iteration
          /\ t \in SupportedTypes
          /\ CalcReturnsData(raster[id], t)
          /\ ViolatesUniqueTogether(id, t)
          /\ media' = save_result(media, j, id, t)
          /\ job' = [job EXCEPT ![j] =
                        IF OnIndexError = "continue"
                        THEN [NextIteration(r) EXCEPT !.conflicts = @ \cup {t}]
                        ELSE [Raise(j, "IntegrityError", "loop") EXCEPT
                                  !.conflicts = @ \cup {t}]]
          /\ UNCHANGED ecological_index
       \/ \* the row is inserted and remembered in calculated_indices
          /\ t \in SupportedTypes
          /\ CalcReturnsData(raster[id], t)
          /\ ~ViolatesUniqueTogether(id, t)
          /\ media' = save_result(media, j, id, t)
          /\ ecological_index' = ecological_index \cup {NewIndexRow(j, ListPosition(r), id, t)}
          /\ job' = [job EXCEPT ![j] =
                        [NextIteration(r) EXCEPT
                            !.calculated_indices =
                                {p \in @ : p[1] # t} \cup {<<t, <<j, ListPosition(r)>>>>}]]

\* --------- calculate_ecological_indices: the RSEI block and the final statements
\* the RSEI block runs calculate_rsei() when all four components were
\* calculated in this run
ComputesRsei(r) ==
    /\ AllComponentsCalculated(r.calculated_indices)
    /\ RseiReturnsResult(raster[r.image_id])

\* ... and inserts the 'rsei' row and the RSEIResult row unless the first insert
\* is rejected; its own try/except only logs, so every outcome goes on
InsertsRsei(r) == ComputesRsei(r) /\ ~ViolatesUniqueTogether(r.image_id, "rsei")

\* image.is_processed = True; image.processing_status = 'completed'
ProcessedImage(image) ==
    [image EXCEPT !.is_processed = TRUE, !.processing_status = "completed"]

\* task.status = 'completed'; task.progress = 100; task.completed_at = time.time()
CompletedTask(task) ==
    [task EXCEPT !.status = "completed", !.progress = 100, !.completed_at = "float"]

\* task.save(): completed_at is a DateTimeField and time.time() a float, which
\* the ORM converts or rejects when it prepares the row; a task object that
\* carries no such value is stored
SaveMayRaise(task) == task.completed_at = "float"

\* The RSEI block, then image.save(), which writes every field of the job's
\* in-memory image object, then task.save(), which either stores the row (the
\* job returns) or raises.
FinishStep(j) ==
    /\ job[j].pc = "finish"
    /\ UNCHANGED <<raster, response, restVars>>
    /\ LET r == job[j]
           id == r.image_id
           image == ProcessedImage(r.image)
           task == CompletedTask(r.task)
           after == [r EXCEPT !.image = image, !.task = task,
                              !.set_processed = image.is_processed,
                              !.rsei_conflict = ComputesRsei(r) /\ ~InsertsRsei(r),
                              !.calculated_indices =
                                  IF InsertsRsei(r) THEN @ \cup {<<"rsei", <<j, 0>>>>} ELSE @]
       IN
       /\ media' = IF ComputesRsei(r) THEN save_result(media, j, id, "rsei") ELSE media
       /\ ecological_index' =
              IF InsertsRsei(r)
              THEN ecological_index \cup {NewIndexRow(j, 0, id, "rsei")}
              ELSE ecological_index
       /\ rsei_result' =
              IF InsertsRsei(r)
              THEN rsei_result \cup {NewRseiResult(j, id, r.calculated_indices, <<j, 0>>)}
              ELSE rsei_result
       /\ image_db' = [image_db EXCEPT ![id] = image]
       /\ \/ /\ processing_task' = [processing_task EXCEPT ![j] = task]
             /\ job' = [job EXCEPT ![j] = Leave(after, "returned")]
          \/ /\ SaveMayRaise(task)
             /\ UNCHANGED processing_task
             /\ job' = [job EXCEPT ![j] =
                           [after EXCEPT !.pc = "except", !.error = "task save failed",
                                         !.failed_at = "finish"]]

\* ------------------------------------------------ calculate_rsei_only: body
\* calculate_rsei, the two file writes, the insert of the 'rsei' row and the
\* final task.save()
RseiOnlyStep(j) ==
    /\ job[j].pc = "rsei_only"
    /\ UNCHANGED <<raster, image_db, rsei_result, response, restVars>>
    /\ LET r == job[j]
           id == r.image_id
           task == CompletedTask(r.task)
           after == [r EXCEPT !.task = task,
                              !.calculated_indices = {<<"rsei", <<j, 0>>>>}]
       IN
       \/ \* if not rsei_result: raise Exception(...)
          /\ ~RseiReturnsResult(raster[id])
          /\ UNCHANGED media
          /\ job' = [job EXCEPT ![j] = Raise(j, "RSEI calculation failed", "body")]
          /\ UNCHANGED <<ecological_index, processing_task>>
       \/ \* the insert is rejected and nothing catches it before the outer except
          /\ RseiReturnsResult(raster[id])
          /\ ViolatesUniqueTogether(id, "rsei")
          /\ media' = save_result(media, j, id, "rsei")
          /\ job' = [job EXCEPT ![j] =
                        [Raise(j, "IntegrityError", "body") EXCEPT
                            !.conflicts = @ \cup {"rsei"}]]
          /\ UNCHANGED <<ecological_index, processing_task>>
       \/ \* the row is inserted and task.save() stores the completed task
          /\ RseiReturnsResult(raster[id])
          /\ ~ViolatesUniqueTogether(id, "rsei")
          /\ media' = save_result(media, j, id, "rsei")
          /\ ecological_index' = ecological_index \cup {NewIndexRow(j, 0, id, "rsei")}
          /\ processing_task' = [processing_task EXCEPT ![j] = task]
          /\ job' = [job EXCEPT ![j] = Leave(after, "returned")]
       \/ \* the row is inserted and task.save() raises
          /\ RseiReturnsResult(raster[id])
          /\ ~ViolatesUniqueTogether(id, "rsei")
          /\ SaveMayRaise(task)
          /\ media' = save_result(media, j, id, "rsei")
          /\ ecological_index' = ecological_index \cup {NewIndexRow(j, 0, id, "rsei")}
          /\ UNCHANGED processing_task
          /\ job' = [job EXCEPT ![j] =
                        [after EXCEPT !.pc = "except", !.error = "task save failed",
                                      !.failed_at = "finish"]]

\* ------------------------------------------ the except block of either task
\* task.status = 'failed'; task.error_message = str(e)
FailedTask(task, message) == [task EXCEPT !.status = "failed", !.error_message = message]

\* image.processing_status = 'failed'
FailedImage(image) == [image EXCEPT !.processing_status = "failed"]

\* only the except block of calculate_ecological_indices touches the image
MarksImageFailed(r) == r.kind = "calculate_ecological_indices" /\ r.has_image

\* if 'task' in locals(): ...save(); if 'image' in locals(): ...save(); raise e
ExceptStep(j) ==
    /\ job[j].pc = "except"
    /\ UNCHANGED <<raster, ecological_index, rsei_result, response, media, restVars>>
    /\ LET r == job[j]
           task == FailedTask(r.task, r.error)
           image == FailedImage(r.image)
           marked == IF MarksImageFailed(r)
                     THEN [image_db EXCEPT ![r.image_id] = image]
                     ELSE image_db
       IN
       \/ \* 'task' is bound and task.save() stores it; then the image, then raise e
          /\ r.has_task
          /\ processing_task' = [processing_task EXCEPT ![j] = task]
          /\ image_db' = marked
          /\ job' = [job EXCEPT ![j] = Leave(r, "raised")]
       \/ \* 'task' is bound and task.save() raises inside the except block: that
          \* exception leaves the function, the image is not touched
          /\ r.has_task
          /\ SaveMayRaise(task)
          /\ UNCHANGED <<processing_task, image_db>>
          /\ job' = [job EXCEPT ![j] =
                        [Leave(r, "raised") EXCEPT !.error = "task save failed in except"]]
       \/ \* 'task' is not bound
          /\ ~r.has_task
          /\ UNCHANGED processing_task
          /\ image_db' = marked
          /\ job' = [job EXCEPT ![j] = Leave(r, "raised")]

\* ------------------------- RemoteSensingImageViewSet.calculate_indices (API)
\* self.get_object(): the row named by the URL exists
GetObjectFinds(pk) == pk \in Images

\* ListField(child=ChoiceField(choices=INDEX_TYPE_CHOICES), min_length=1)
ValidIndices(indices) ==
    /\ Len(indices) >= 1
    /\ \A k \in 1..Len(indices) : indices[k] \in INDEX_TYPE_CHOICES

\* EcologicalIndexCalculationSerializer(data=request.data).is_valid()
SerializerIsValid(remote_sensing_image_id, indices) ==
    /\ remote_sensing_image_id \in Images
    /\ ValidIndices(indices)

\* the status of the response: Http404 from get_object() is an Exception and is
\* caught by the action's own except, which answers 500
ResponseStatus(pk, remote_sensing_image_id, indices) ==
    IF ~GetObjectFinds(pk) THEN 500
    ELSE IF SerializerIsValid(remote_sensing_image_id, indices) THEN 202
    ELSE 400

Answer(action, code, pk, remote_sensing_image_id, indices, task_id) ==
    [action |-> action, code |-> code, pk |-> pk,
     remote_sensing_image_id |-> remote_sensing_image_id,
     indices |-> indices, task_id |-> task_id]

CalculateIndices ==
    \E pk \in ImageIds, remote_sensing_image_id \in ImageIds, indices \in RequestLists :
        LET code == ResponseStatus(pk, remote_sensing_image_id, indices) IN
        /\ UNCHANGED <<raster, image_db, ecological_index, rsei_result, processing_task, media, restVars>>
        /\ \/ /\ code = 202
              /\ \E j \in Jobs :
                    /\ FreeSlot(j)
                    /\ job' = [job EXCEPT ![j] =
                                  Enqueued(j, "calculate_ecological_indices", pk, indices)]
                    /\ response' = Answer("calculate_indices", code, pk,
                                          remote_sensing_image_id, indices, {j})
           \/ /\ code # 202
              /\ UNCHANGED job
              /\ response' = Answer("calculate_indices", code, pk,
                                    remote_sensing_image_id, indices, {})

\* RSEICalculationSerializer(data=request.data).is_valid()
RseiSerializerIsValid(remote_sensing_image_id) == remote_sensing_image_id \in Images

RseiResponseStatus(pk, remote_sensing_image_id) ==
    IF ~GetObjectFinds(pk) THEN 500
    ELSE IF RseiSerializerIsValid(remote_sensing_image_id) THEN 202
    ELSE 400

CalculateRsei ==
    \E pk \in ImageIds, remote_sensing_image_id \in ImageIds :
        LET code == RseiResponseStatus(pk, remote_sensing_image_id) IN
        /\ UNCHANGED <<raster, image_db, ecological_index, rsei_result, processing_task, media, restVars>>
        /\ \/ /\ code = 202
              /\ \E j \in Jobs :
                    /\ FreeSlot(j)
                    /\ job' = [job EXCEPT ![j] =
                                  Enqueued(j, "calculate_rsei_only", pk, << >>)]
                    /\ response' = Answer("calculate_rsei", code, pk,
                                          remote_sensing_image_id, << >>, {j})
           \/ /\ code # 202
              /\ UNCHANGED job
              /\ response' = Answer("calculate_rsei", code, pk,
                                    remote_sensing_image_id, << >>, {})

\* ------------------------------------------------------------ specification
\* one statement of one job on some worker
JobStep ==
    \/ \E j \in Jobs : Setup(j)
    \/ \E j \in Jobs : LoopStep(j)
    \/ \E j \in Jobs : FinishStep(j)
    \/ \E j \in Jobs : RseiOnlyStep(j)
    \/ \E j \in Jobs : ExceptStep(j)

\* the orchestrator: messages arrive for either task function and are worked on
Next ==
    \/ Delay
    \/ JobStep

Spec == Init /\ [][Next]_vars

\* the API in front of it: every job is enqueued by one of the two actions of the image view set
NextApi ==
    \/ CalculateIndices
    \/ CalculateRsei
    \/ JobStep

SpecApi == Init /\ [][NextApi]_vars


\* ============================================== the remote-sensing API layer
\* the orchestrator at rest, for the specifications that do not run it
OrchestratorIdle ==
    /\ raster = [m \in Images |-> "bands6"]
    /\ image_db = [m \in Images |-> [is_processed |-> FALSE, processing_status |-> "pending"]]
    /\ ecological_index = {}
    /\ rsei_result = {}
    /\ processing_task = [j \in Jobs |-> NoRow]
    /\ job = [j \in Jobs |-> IdleJob]
    /\ media = [path \in MediaPaths |-> NoFile]
    /\ response = [action |-> "none", code |-> 0, pk |-> MissingImage,
                   remote_sensing_image_id |-> MissingImage, indices |-> << >>, task_id |-> {}]

\* user.is_superuser or user.role == 'admin'
IsAdmin(users, u) == users[u].is_superuser \/ users[u].role = "admin"

\* the ids of the image rows of a table
ImageRows(images) == {m \in UploadIds : images[m] # NoRow}

\* RemoteSensingImageViewSet.get_queryset
get_queryset(users, u, images) ==
    IF IsAdmin(users, u)
    THEN ImageRows(images)
    ELSE {m \in ImageRows(images) : images[m].uploaded_by = u}

\* the get_queryset of the three read-only view sets:
\* filter(remote_sensing_image__uploaded_by=user)
child_queryset(users, u, images, children, table) ==
    IF IsAdmin(users, u)
    THEN {c \in children : c.table = table}
    ELSE {c \in children : c.table = table /\ c.image \in ImageRows(images)
                           /\ images[c.image].uploaded_by = u}

Reply(action, u, code, body) == [action |-> action, caller |-> u, code |-> code, body |-> body]

\* GET on a collection
ListResponse(users, u, images, children, table) ==
    IF table = "image"
    THEN Reply("list", u, 200, get_queryset(users, u, images))
    ELSE Reply("list", u, 200, child_queryset(users, u, images, children, table))

\* GET on one row: get_object() answers 404 outside the query set
RetrieveResponse(users, u, images, children, table, pk) ==
    IF table = "image"
    THEN IF pk \in get_queryset(users, u, images)
         THEN Reply("retrieve", u, 200, {pk}) ELSE Reply("retrieve", u, 404, {})
    ELSE IF \E c \in child_queryset(users, u, images, children, table) : c.image = pk
         THEN Reply("retrieve", u, 200, {pk}) ELSE Reply("retrieve", u, 404, {})

\* the actions indices and rsei_result of the image view set: get_object() is
\* inside the try, its Http404 is answered 500
IndicesResponse(users, u, images, children, pk) ==
    IF pk \in get_queryset(users, u, images)
    THEN Reply("indices", u, 200,
               {c \in children : c.table = "ecological_index" /\ c.image = pk})
    ELSE Reply("indices", u, 500, {})

RseiResultResponse(users, u, images, children, pk) ==
    IF pk \notin get_queryset(users, u, images) THEN Reply("rsei_result", u, 500, {})
    ELSE IF \E c \in children : c.table = "rsei_result" /\ c.image = pk
         THEN Reply("rsei_result", u, 200, {pk})
         ELSE Reply("rsei_result", u, 404, {})

\* validate_remote_sensing_image_id: RemoteSensingImage.objects.get(id=value),
\* on the whole table
ImageIdIsValid(images, remote_sensing_image_id) ==
    remote_sensing_image_id \in ImageRows(images)

\* the actions calculate_indices and calculate_rsei, for a well-formed index
\* list: 202 and the job is enqueued for the image of the URL
CalculateResponse(users, u, images, pk, remote_sensing_image_id) ==
    IF pk \notin get_queryset(users, u, images) THEN Reply("calculate", u, 500, {})
    ELSE IF ImageIdIsValid(images, remote_sensing_image_id)
         THEN Reply("calculate", u, 202, {pk})
         ELSE Reply("calculate", u, 400, {})

ApiUnchanged == UNCHANGED <<orchVars, cli, calcVars, engineVars, user_table, user_session, auth, account_response>>

ListRows ==
    \E u \in Users, table \in ChildTables \cup {"image"} :
        /\ image_response' = ListResponse(user_table, u, image_table, child_table, table)
        /\ UNCHANGED <<image_table, child_table>>
        /\ ApiUnchanged

RetrieveRow ==
    \E u \in Users, table \in ChildTables \cup {"image"}, pk \in UploadIds :
        /\ image_response' =
               RetrieveResponse(user_table, u, image_table, child_table, table, pk)
        /\ UNCHANGED <<image_table, child_table>>
        /\ ApiUnchanged

ImageIndices ==
    \E u \in Users, pk \in UploadIds :
        /\ image_response' = IndicesResponse(user_table, u, image_table, child_table, pk)
        /\ UNCHANGED <<image_table, child_table>>
        /\ ApiUnchanged

ImageRseiResult ==
    \E u \in Users, pk \in UploadIds :
        /\ image_response' = RseiResultResponse(user_table, u, image_table, child_table, pk)
        /\ UNCHANGED <<image_table, child_table>>
        /\ ApiUnchanged

CalculateFor ==
    \E u \in Users, pk \in UploadIds, remote_sensing_image_id \in UploadIds :
        /\ image_response' =
               CalculateResponse(user_table, u, image_table, pk, remote_sensing_image_id)
                   @@ [remote_sensing_image_id |-> remote_sensing_image_id]
        /\ UNCHANGED <<image_table, child_table>>
        /\ ApiUnchanged

\* what a job leaves behind for an image, in the order in which it creates
\* them: its task row, index rows, an RSEI result
PersistOrder == <<"processing_task", "ecological_index", "rsei_result">>

JobPersists ==
    \E m \in UploadIds, k \in 1..Len(PersistOrder) :
        /\ image_table[m] # NoRow
        /\ \A h \in 1..(k - 1) : [table |-> PersistOrder[h], image |-> m] \in child_table
        /\ [table |-> PersistOrder[k], image |-> m] \notin child_table
        /\ child_table' = child_table \cup {[table |-> PersistOrder[k], image |-> m]}
        /\ UNCHANGED <<image_table, image_response>>
        /\ ApiUnchanged

\* ------------------------------------------------------------------- upload
\* value.name.lower(), letter by letter
LowerChar(c) ==
    CASE c = "A" -> "a" [] c = "T" -> "t" [] c = "I" -> "i" [] c = "F" -> "f"
      [] c = "X" -> "x" [] c = "Z" -> "z" [] c = "P" -> "p" [] OTHER -> c

Lower(name) == [k \in 1..Len(name) |-> LowerChar(name[k])]

\* str.endswith
EndsWith(name, ext) ==
    /\ Len(ext) <= Len(name)
    /\ SubSeq(name, Len(name) - Len(ext) + 1, Len(name)) = ext

allowed_extensions ==
    {<<".", "t", "i", "f">>, <<".", "t", "i", "f", "f">>, <<".", "i", "m", "g">>,
     <<".", "h", "d", "f">>, <<".", "n", "c">>, <<".", "z", "i", "p">>}

\* 50 * 1024 * 1024
MaxFileSize == 50 * 1024 * 1024

\* variant: a limit that already rejects a file of exactly 50 MB
FilePathIsValid_Below(file) ==
    /\ \E ext \in allowed_extensions : EndsWith(Lower(file.name), ext)
    /\ file.size < MaxFileSize

\* RemoteSensingImageUploadSerializer.validate_file_path
FilePathIsValid(file) ==
    /\ \E ext \in allowed_extensions : EndsWith(Lower(file.name), ext)
    /\ ~(file.size > MaxFileSize)

FileNames ==
    {<<"a", ".", "t", "i", "f">>, <<"A", ".", "T", "I", "F">>, <<"a", ".", "T", "i", "f", "f">>,
     <<"a", ".", "i", "m", "g">>, <<"a", ".", "h", "d", "f">>, <<"a", ".", "n", "c">>,
     <<"a", ".", "Z", "I", "P">>, <<"a", ".", "t", "x", "t">>,
     <<"a", ".", "t", "i", "f", ".", "t", "x", "t">>, <<"t", "i", "f">>, <<"a", ".", "t", "i">>}

FileSizes == {1, MaxFileSize - 1, MaxFileSize, MaxFileSize + 1}

Files == [name : FileNames, size : FileSizes]

NewImage(u) == [uploaded_by |-> u, is_processed |-> FALSE, processing_status |-> "pending"]

\* the response of upload, with the request it answers
UploadReply(u, code, body, file, fields_valid) ==
    [action |-> "upload", caller |-> u, code |-> code, body |-> body,
     file |-> file, fields_valid |-> fields_valid]

\* the first id no row uses
FreeIds(images) == {m \in UploadIds : images[m] = NoRow /\ \A k \in 1..(m - 1) : images[k] # NoRow}

\* RemoteSensingImageViewSet.upload: the serializer (the file and the other
\* fields of the form) decides between 201 with a new row and 400
Upload ==
    \E u \in Users, file \in Files, fields_valid \in BOOLEAN :
        /\ UNCHANGED child_table
        /\ ApiUnchanged
        /\ \/ /\ fields_valid /\ FilePathIsValid(file)
              /\ \E m \in FreeIds(image_table) :
                    /\ image_table' = [image_table EXCEPT ![m] = NewImage(u)]
                    /\ image_response' = UploadReply(u, 201, {m}, file, fields_valid)
           \/ /\ ~(fields_valid /\ FilePathIsValid(file))
              /\ UNCHANGED image_table
              /\ image_response' = UploadReply(u, 400, {}, file, fields_valid)

\* ------------------------------------ the inherited ModelViewSet operations
\* what a PUT/PATCH body may set: is_processed and processing_status are not
\* among read_only_fields of RemoteSensingImageSerializer
UpdateBodies ==
    {[is_processed |-> TRUE, processing_status |-> "completed"],
     [is_processed |-> FALSE, processing_status |-> "pending"]}

UpdateImage ==
    \E u \in Users, pk \in UploadIds, data \in UpdateBodies :
        /\ UNCHANGED child_table
        /\ ApiUnchanged
        /\ IF pk \in get_queryset(user_table, u, image_table)
           THEN /\ image_table' = [image_table EXCEPT ![pk] =
                                      [@ EXCEPT !.is_processed = data.is_processed,
                                                !.processing_status = data.processing_status]]
                /\ image_response' = Reply("update", u, 200, {pk})
           ELSE /\ UNCHANGED image_table
                /\ image_response' = Reply("update", u, 404, {})

\* DELETE: the row goes, and with it (on_delete=CASCADE) the rows that refer to it
DestroyImage ==
    \E u \in Users, pk \in UploadIds :
        /\ ApiUnchanged
        /\ IF pk \in get_queryset(user_table, u, image_table)
           THEN /\ image_table' = [image_table EXCEPT ![pk] = NoRow]
                /\ child_table' = {c \in child_table : c.image # pk}
                /\ image_response' = Reply("destroy", u, 204, {pk})
           ELSE /\ UNCHANGED <<image_table, child_table>>
                /\ image_response' = Reply("destroy", u, 404, {})

\* POST on the collection: perform_create saves the row with uploaded_by=request.user
CreateImage ==
    \E u \in Users, m \in FreeIds(image_table) :
        /\ image_table' = [image_table EXCEPT ![m] = NewImage(u)]
        /\ image_response' = Reply("create", u, 201, {m})
        /\ UNCHANGED child_table
        /\ ApiUnchanged

InitImages ==
    /\ OrchestratorIdle
    /\ CliIdle
    /\ CalcIdle
    /\ EngineIdle
    /\ AccountsIdle
    /\ user_table \in SeedTables
    /\ image_table = [m \in UploadIds |-> NoRow]
    /\ child_table = {}
    /\ image_response = NoResponse

NextImages ==
    \/ CreateImage
    \/ ListRows
    \/ RetrieveRow
    \/ ImageIndices
    \/ ImageRseiResult
    \/ CalculateFor
    \/ UpdateImage
    \/ DestroyImage
    \/ JobPersists

SpecImages == InitImages /\ [][NextImages]_vars

\* the upload action on its own
SpecUpload == InitImages /\ [][Upload]_vars

\* ================================================ Engine A: index statistics
\* EcologicalIndexCalculator.calculate_statistics in exact arithmetic.  A pixel
\* is a number or NaN; a raster is the flattened array of its pixels.
MaxMu == 3
MaxSigma == 4
MaxPixels == 3

Value(v) == [valid |-> TRUE, value |-> v]
NaN == [valid |-> FALSE, value |-> 0]

\* ~np.isnan(p)
NotNaN(p) == p.valid

Raster(pixels) == [pixels |-> pixels]

\* the raster whose values are mu+2sigma, mu+sigma, mu, mu-sigma, mu-2sigma
FiveValueRaster(mu, sigma) ==
    Raster(<<Value(mu + 2 * sigma), Value(mu + sigma), Value(mu),
             Value(mu - sigma), Value(mu - 2 * sigma)>>)

Reverse(seq) == [k \in 1..Len(seq) |-> seq[Len(seq) + 1 - k]]

\* the rasters calculate_statistics is applied to
IndexRasters ==
    {None}
    \cup {FiveValueRaster(mu, sigma) : mu \in (0 - MaxMu)..MaxMu, sigma \in 1..MaxSigma}
    \cup {Raster(Reverse(FiveValueRaster(mu, sigma).pixels)) :
              mu \in (0 - MaxMu)..MaxMu, sigma \in 1..MaxSigma}
    \cup {Raster(pixels) : pixels \in UNION {[1..n -> {NaN, Value(0), Value(1), Value(3)}] :
                                                  n \in 0..MaxPixels}}

RECURSIVE SumOf(_)
SumOf(seq) == IF seq = <<>> THEN 0 ELSE Head(seq) + SumOf(Tail(seq))

Values(pixels) == [k \in 1..Len(pixels) |-> pixels[k].value]

Squares(seq) == [k \in 1..Len(seq) |-> seq[k] * seq[k]]

Minimum(seq) == CHOOSE v \in Range(seq) : \A w \in Range(seq) : v <= w
Maximum(seq) == CHOOSE v \in Range(seq) : \A w \in Range(seq) : w <= v

\* variant: thresholds at mean +- 1.0 std and mean +- 0.5 std
thresholds_Narrow == [excellent |-> 2, good |-> 1, moderate |-> -1, poor |-> -2]

\* twice the factors of std_val in the four thresholds:
\* excellent 1.5, good 0.5, moderate -0.5, poor -1.5
thresholds == [excellent |-> 3, good |-> 1, moderate |-> -1, poor |-> -3]

\* v >= mean_val + (a/2) * std_val over valid_data, with n = len(valid_data),
\* mean_val = S/n and std_val = sqrt(Q/n^3) where S is the sum of the values
\* and Q the sum of (n*w - S)^2: the test is 2(n*v - S) >= a * sqrt(Q/n)
AtLeast(valid_data, v, a) ==
    LET n == Len(valid_data)
        S == SumOf(valid_data)
        Q == SumOf(Squares([k \in 1..n |-> n * valid_data[k] - S]))
        L == 2 * (n * v - S)
    IN IF a > 0 THEN L >= 0 /\ L * L * n >= a * a * Q
       ELSE L >= 0 \/ L * L * n <= a * a * Q

\* the class whose mask of calculate_statistics holds for v
ClassOf(valid_data, v) ==
    IF AtLeast(valid_data, v, thresholds.excellent) THEN "excellent"
    ELSE IF AtLeast(valid_data, v, thresholds.good) THEN "good"
    ELSE IF AtLeast(valid_data, v, thresholds.moderate) THEN "moderate"
    ELSE IF AtLeast(valid_data, v, thresholds.poor) THEN "poor"
    ELSE "bad"

\* np.sum(mask): the number of pixels in a class
PixelsIn(valid_data, class) ==
    Cardinality({k \in 1..Len(valid_data) : ClassOf(valid_data, valid_data[k]) = class})

\* area_per_pixel = 30 * 30 / 1000000 km2, in units of 0.0001 km2
area_per_pixel == 9

\* mean_value is S/n and std_value the square root of Q/n^3, kept as fractions
calculate_statistics(data) ==
    IF data = None THEN None
    ELSE LET valid_data == Values(SelectSeq(data.pixels, NotNaN))
             n == Len(valid_data)
             S == SumOf(valid_data)
         IN IF n = 0 THEN None
            ELSE [min_value |-> Minimum(valid_data),
                  max_value |-> Maximum(valid_data),
                  mean_value |-> <<S, n>>,
                  std_value_squared |->
                      <<SumOf(Squares([k \in 1..n |-> n * valid_data[k] - S])), n * n * n>>,
                  excellent_area |-> PixelsIn(valid_data, "excellent") * area_per_pixel,
                  good_area |-> PixelsIn(valid_data, "good") * area_per_pixel,
                  moderate_area |-> PixelsIn(valid_data, "moderate") * area_per_pixel,
                  poor_area |-> PixelsIn(valid_data, "poor") * area_per_pixel,
                  bad_area |-> PixelsIn(valid_data, "bad") * area_per_pixel]

StatsUnchanged ==
    UNCHANGED <<orchVars, cli, engineVars, rsei_input, rsei_output, user_table, image_table,
                child_table, image_response, user_session, auth, account_response>>

CalculateStatistics ==
    /\ stats = Unset
    /\ stats' = calculate_statistics(index_data)
    /\ UNCHANGED index_data
    /\ StatsUnchanged

InitStats ==
    /\ OrchestratorIdle
    /\ CliIdle
    /\ ApiIdle
    /\ AccountsIdle
    /\ EngineIdle
    /\ index_data \in IndexRasters
    /\ stats = Unset
    /\ rsei_input = Unset
    /\ rsei_output = Unset

SpecStats == InitStats /\ [][CalculateStatistics]_vars

\* ======================================================= RSEI, both engines
\* The four component rasters are flattened to one row of four values per
\* pixel.  A pixel of the model names its row: 0 when one of the four values
\* is NaN, else one of NumRows distinct rows.  StandardScaler and PCA are not
\* computed: their result, the first principal component, is any assignment
\* of scores to rows that PCA can produce on centred data (the scores of the
\* valid pixels sum to zero, and they are all equal only when all valid rows
\* are equal).
NumRseiPixels == 5
NumRows == 2
MaxScore == 2

RseiInputs ==
    [engine : {"A", "B"}, components : BOOLEAN, pixels : [1..NumRseiPixels -> 0..NumRows]]

\* valid_mask
valid_mask(pixels) == {k \in 1..Len(pixels) : pixels[k] # 0}

RowsPresent(pixels) == {pixels[k] : k \in valid_mask(pixels)}

\* PCA(n_components=4).fit_transform raises ValueError when there are fewer
\* than 4 samples (and StandardScaler on no sample at all)
PcaRaises(pixels) == Cardinality(valid_mask(pixels)) < 4

\* pca_result[:, 0] per row
PcaOutcomes(pixels) ==
    IF PcaRaises(pixels) THEN {[raised |-> TRUE]}
    ELSE {[raised |-> FALSE, pc1 |-> f] :
            f \in {g \in [RowsPresent(pixels) -> (0 - MaxScore)..MaxScore] :
                     /\ SumOf([k \in 1..Len(pixels) |->
                                 IF pixels[k] = 0 THEN 0 ELSE g[pixels[k]]]) = 0
                     /\ (Cardinality(RowsPresent(pixels)) > 1
                            => \E r1, r2 \in RowsPresent(pixels) : g[r1] # g[r2])}}

\* a finite float num/den
Quotient(num, den) == [valid |-> TRUE, num |-> num, den |-> den]

\* (rsei - min) / (max - min) over the valid pixels; 0/0 is NaN
MinMax(pixels, pc1) ==
    LET scores == {pc1[r] : r \in RowsPresent(pixels)}
        lo == CHOOSE v \in scores : \A w \in scores : v <= w
        hi == CHOOSE v \in scores : \A w \in scores : w <= v
    IN [k \in 1..Len(pixels) |->
          IF pixels[k] = 0 THEN NaN
          ELSE IF hi = lo THEN NaN
          ELSE Quotient(pc1[pixels[k]] - lo, hi - lo)]

\* EcologicalIndexCalculator.calculate_rsei
calculate_rsei(input, pca) ==
    IF ~input.components THEN None
    ELSE IF valid_mask(input.pixels) = {} THEN None
    ELSE IF pca.raised THEN None
    ELSE [rsei |-> MinMax(input.pixels, pca.pc1)]

\* GDALEcologicalIndexCalculator.calculate_rsei
gdal_calculate_rsei(input, pca) ==
    IF ~input.components THEN None
    ELSE IF pca.raised THEN None
    ELSE [rsei |-> MinMax(input.pixels, pca.pc1)]

RseiUnchanged ==
    UNCHANGED <<orchVars, cli, engineVars, index_data, stats, rsei_input, user_table, image_table,
                child_table, image_response, user_session, auth, account_response>>

EngineARsei ==
    /\ rsei_input.engine = "A"
    /\ rsei_output = Unset
    /\ \E pca \in PcaOutcomes(rsei_input.pixels) :
           rsei_output' = calculate_rsei(rsei_input, pca)
    /\ RseiUnchanged

EngineBRsei ==
    /\ rsei_input.engine = "B"
    /\ rsei_output = Unset
    /\ \E pca \in PcaOutcomes(rsei_input.pixels) :
           rsei_output' = gdal_calculate_rsei(rsei_input, pca)
    /\ RseiUnchanged

InitRsei ==
    /\ OrchestratorIdle
    /\ CliIdle
    /\ ApiIdle
    /\ AccountsIdle
    /\ EngineIdle
    /\ index_data = Unset
    /\ stats = Unset
    /\ rsei_input \in RseiInputs
    /\ rsei_output = Unset

NextRsei ==
    \/ EngineARsei
    \/ EngineBRsei

SpecRsei == InitRsei /\ [][NextRsei]_vars

\* ============================================== the preprocessing command line
\* data_preprocessor.main, one action per stage.  Every stage method catches
\* its own exceptions and returns a bool.
DataTypes == {"landsat", "sentinel", "landuse"}

CliUnchanged ==
    UNCHANGED <<orchVars, calcVars, engineVars, user_table, image_table, child_table, image_response,
                user_session, auth, account_response>>

\* parse_args: --data-type is required, --clip-region and --resample-resolution optional
ParseArgs ==
    /\ cli.pc = "none"
    /\ \E data_type \in DataTypes, clip_region \in BOOLEAN, resample_resolution \in BOOLEAN :
           cli' = [cli EXCEPT !.pc = "process", !.data_type = data_type,
                              !.clip_region = clip_region,
                              !.resample_resolution = resample_resolution]
    /\ CliUnchanged

\* success = preprocessor.process_<data_type>_data(...); on False main prints
\* the failure line and returns 1
ProcessData ==
    /\ cli.pc = "process"
    /\ \E ok \in BOOLEAN :
           cli' = IF ok
                  THEN [cli EXCEPT !.pc = "clip", !.success = TRUE, !.output_exists = TRUE,
                                   !.stages_run = @ \cup {"process"}]
                  ELSE [cli EXCEPT !.pc = "done", !.success = FALSE,
                                   !.stages_run = @ \cup {"process"},
                                   !.stages_failed = @ \cup {"process"},
                                   !.printed = "failed", !.exit_code = {1}]
    /\ CliUnchanged

\* if args.clip_region: preprocessor.clip_to_region(...); output_path = clipped_path.
\* The bool that clip_to_region returns is not looked at.
ClipToRegion ==
    /\ cli.pc = "clip"
    /\ IF cli.clip_region
       THEN \E ok \in BOOLEAN :
                cli' = [cli EXCEPT !.pc = "resample", !.output_exists = ok,
                                   !.stages_run = @ \cup {"clip"},
                                   !.stages_failed = IF ok THEN @ ELSE @ \cup {"clip"}]
       ELSE cli' = [cli EXCEPT !.pc = "resample"]
    /\ CliUnchanged

\* if args.resample_resolution: preprocessor.resample_data(...);
\* output_path = resampled_path.  gdal.Warp on an input that does not exist
\* returns None, which resample_data turns into False; its bool is not looked at.
ResampleData ==
    /\ cli.pc = "resample"
    /\ IF cli.resample_resolution
       THEN \E ok \in (IF cli.output_exists THEN BOOLEAN ELSE {FALSE}) :
                cli' = [cli EXCEPT !.pc = "print", !.output_exists = ok,
                                   !.stages_run = @ \cup {"resample"},
                                   !.stages_failed = IF ok THEN @ ELSE @ \cup {"resample"}]
       ELSE cli' = [cli EXCEPT !.pc = "print"]
    /\ CliUnchanged

\* print("... 数据处理完成: {output_path}")
PrintDone ==
    /\ cli.pc = "print"
    /\ cli' = [cli EXCEPT !.pc = "report", !.printed = "completed"]
    /\ CliUnchanged

\* preprocessor.create_processing_report() (catches its own exceptions); return 0
ReportAndReturn ==
    /\ cli.pc = "report"
    /\ cli' = [cli EXCEPT !.pc = "done", !.exit_code = {0}]
    /\ CliUnchanged

InitCli == OrchestratorIdle /\ RestIdle

NextCli ==
    \/ ParseArgs
    \/ ProcessData
    \/ ClipToRegion
    \/ ResampleData
    \/ PrintDone
    \/ ReportAndReturn

SpecCli == InitCli /\ [][NextCli]_vars

\* ================================== the preprocessor: band files to one mosaic
\* band_order of process_landsat_data and of process_sentinel_data
landsat_band_order == <<"B2", "B3", "B4", "B5", "B6", "B7">>
sentinel_band_order == <<"B02", "B03", "B04", "B08", "B11", "B12">>

\* band_names, the same list in both methods
band_names == <<"Blue", "Green", "Red", "NIR", "SWIR1", "SWIR2">>

\* the directories the two methods are run on: which band files glob finds
BandDirectories ==
    [data_type : {"landsat"}, found : SUBSET Range(landsat_band_order)]
    \cup [data_type : {"sentinel"}, found : SUBSET Range(sentinel_band_order)]

\* [converted_files[band] for band in band_order if band in converted_files]
band_paths(band_order, converted_files) ==
    LET Converted(band) == band \in converted_files
    IN SelectSeq(band_order, Converted)

\* merge_bands: output band i holds the data of band_files[i] and is described
\* by band_names[i] when there is such a name, else "Band_<i>"
merge_bands(files, names) ==
    [i \in 1..Len(files) |->
        [data |-> files[i],
         description |-> IF i <= Len(names) THEN names[i] ELSE "Band_"]]

\* process_landsat_data / process_sentinel_data: no band file found, or a
\* validation, conversion or merge that fails (stages_ok false), is caught
\* and gives no mosaic
process_data(band_order, found, stages_ok) ==
    IF found = {} THEN None
    ELSE IF ~stages_ok THEN None
    ELSE [bands |-> merge_bands(band_paths(band_order, found), band_names)]

PreprocessUnchanged ==
    UNCHANGED <<orchVars, cli, calcVars, tcVars, landuseVars, gdalStatsVars, user_table, image_table, child_table,
                image_response, user_session, auth, account_response>>

ProcessLandsat ==
    /\ band_files.data_type = "landsat"
    /\ mosaic = Unset
    /\ \E stages_ok \in BOOLEAN :
           mosaic' = process_data(landsat_band_order, band_files.found, stages_ok)
    /\ UNCHANGED band_files
    /\ PreprocessUnchanged

ProcessSentinel ==
    /\ band_files.data_type = "sentinel"
    /\ mosaic = Unset
    /\ \E stages_ok \in BOOLEAN :
           mosaic' = process_data(sentinel_band_order, band_files.found, stages_ok)
    /\ UNCHANGED band_files
    /\ PreprocessUnchanged

InitBands ==
    /\ OrchestratorIdle
    /\ CliIdle
    /\ CalcIdle
    /\ ApiIdle
    /\ AccountsIdle
    /\ TcIdle
    /\ LandUseIdle
    /\ GdalStatsIdle
    /\ band_files \in BandDirectories
    /\ mosaic = Unset

NextBands ==
    \/ ProcessLandsat
    \/ ProcessSentinel

SpecBands == InitBands /\ [][NextBands]_vars

\* ============================================ Engine B: Tasseled Cap transform
\* GDALEcologicalIndexCalculator.calculate_tasseled_cap on one pixel; the
\* coefficients are kept as integers, in units of 0.0001
MaxBands == 7

tc_coefficients ==
    [brightness |-> <<3029, 2786, 4733, 5599, 5080, 1872>>,
     greenness |-> <<-2941, -2430, -5424, 7276, 713, -1608>>,
     wetness |-> <<1511, 1973, 3283, 3407, -7117, -4559>>,
     fourth |-> <<-8239, 849, 4396, -580, 2013, -2773>>,
     fifth |-> <<-3294, 557, 1056, 1855, -4349, 8085>>,
     sixth |-> <<1079, -9023, 4119, 575, -259, 252>>]

TcComponents == DOMAIN tc_coefficients

\* the images the transform is applied to: the values of one pixel in each band
TcImages == UNION {[1..k -> {0, 1, 3}] : k \in 0..MaxBands}

\* np.dot of one row of band_matrix with coef_array
Dot(row, coef_array) == SumOf([i \in 1..Len(row) |-> row[i] * coef_array[i]])

\* if len(coefficients) <= len(band_data)
EnoughBands(coefficients, band_data) == Len(coefficients) <= Len(band_data)

\* for i in range(1, min(7, self.band_count + 1)): band_data.append(self.bands[i])
band_data(bands) == SubSeq(bands, 1, IF Len(bands) < 6 THEN Len(bands) ELSE 6)

\* np.column_stack raises on an empty list; the except returns None
calculate_tasseled_cap(bands) ==
    IF Len(bands) = 0 THEN None
    ELSE [results |->
            [component \in {c \in TcComponents :
                               EnoughBands(tc_coefficients[c], band_data(bands))} |->
                Dot(band_data(bands),
                    SubSeq(tc_coefficients[component], 1, Len(band_data(bands))))]]

TcUnchanged ==
    UNCHANGED <<orchVars, cli, calcVars, bandVars, landuseVars, gdalStatsVars, user_table,
                image_table, child_table, image_response, user_session, auth,
                account_response>>

CalculateTasseledCap ==
    /\ tc_results = Unset
    /\ tc_results' = calculate_tasseled_cap(tc_bands)
    /\ UNCHANGED tc_bands
    /\ TcUnchanged

InitTc ==
    /\ OrchestratorIdle
    /\ CliIdle
    /\ CalcIdle
    /\ ApiIdle
    /\ AccountsIdle
    /\ BandsIdle
    /\ LandUseIdle
    /\ GdalStatsIdle
    /\ tc_bands \in TcImages
    /\ tc_results = Unset

SpecTc == InitTc /\ [][CalculateTasseledCap]_vars

\* ============================================= the land-use analysis engine
\* LandUseAnalyzer on a loaded raster.  A pixel is a class id, a value outside
\* the class table, or the sentinel that load_landuse_data writes for no-data.
MaxLandUsePixels == 3

NoDataSentinel == -9999

\* self.landuse_classes: the fragility of each class, in units of 0.1
landuse_classes ==
    [class_id \in 1..8 |->
        [fragility |-> <<3, 1, 2, 4, 8, 9, 5, 2>>[class_id]]]

\* the values a pixel of the model takes: no-data, three classes of the table
\* (6 is unused land, 1 a development class) and one value outside the table
LandUseValues == {NoDataSentinel, 1, 2, 6, 9}

LandUseRasters == UNION {[1..n -> LandUseValues] : n \in 0..MaxLandUsePixels}

\* np.sum(self.landuse_data == class_id)
ClassPixels(data, class_id) == Cardinality({k \in 1..Len(data) : data[k] = class_id})

\* np.sum(self.landuse_data != -9999)
ValidPixels(data) == Cardinality({k \in 1..Len(data) : data[k] # NoDataSentinel})

\* get_landuse_statistics: per class the pixel count and ratio_percent, kept
\* as the pair <<class_pixels, valid_pixels>>
get_landuse_statistics(data) ==
    [total_pixels |-> Len(data),
     valid_pixels |-> ValidPixels(data),
     classes |-> [class_id \in 1..8 |->
                     [pixels |-> ClassPixels(data, class_id),
                      ratio |-> <<ClassPixels(data, class_id), ValidPixels(data)>>]]]

\* total_valid_area of calculate_fragility_index: the sum of the areas of the
\* classes of the table that are present
FragilityTotalArea(data) ==
    SumOf([class_id \in 1..8 |-> ClassPixels(data, class_id)])

\* calculate_fragility_index: the sum of pi * fragility with
\* pi = area / total_valid_area, kept as <<numerator, denominator>> in units of 0.1
calculate_fragility_index(data) ==
    IF FragilityTotalArea(data) = 0
    THEN [fragility_index |-> <<0, 1>>]
    ELSE [fragility_index |->
              <<SumOf([class_id \in 1..8 |->
                          ClassPixels(data, class_id) * landuse_classes[class_id].fragility]),
                10 * FragilityTotalArea(data)>>,
          total_area |-> FragilityTotalArea(data)]

\* calculate_unused_land_ratio, the ratio kept as <<unused_area, total_valid_area>>
calculate_unused_land_ratio(data) ==
    IF ValidPixels(data) = 0
    THEN [unused_land_ratio |-> <<0, 1>>]
    ELSE [unused_land_ratio |-> <<ClassPixels(data, 6), ValidPixels(data)>>,
          unused_area |-> ClassPixels(data, 6),
          total_area |-> ValidPixels(data)]

\* calculate_development_ratio
calculate_development_ratio(data) ==
    IF ValidPixels(data) = 0
    THEN [development_ratio |-> <<0, 1>>]
    ELSE [development_ratio |->
              <<ClassPixels(data, 1) + ClassPixels(data, 5), ValidPixels(data)>>,
          development_area |-> ClassPixels(data, 1) + ClassPixels(data, 5),
          total_area |-> ValidPixels(data)]

LandUseUnchanged ==
    UNCHANGED <<orchVars, cli, calcVars, bandVars, tcVars, gdalStatsVars, user_table,
                image_table, child_table, image_response, user_session, auth,
                account_response>>

\* calculate_all_indices: the methods one after the other on the loaded raster
CalculateAllIndices ==
    /\ landuse_analysis = Unset
    /\ landuse_analysis' =
           [statistics |-> get_landuse_statistics(landuse_data),
            fragility |-> calculate_fragility_index(landuse_data),
            unused_land |-> calculate_unused_land_ratio(landuse_data),
            development |-> calculate_development_ratio(landuse_data)]
    /\ UNCHANGED landuse_data
    /\ LandUseUnchanged

InitLandUse ==
    /\ OrchestratorIdle
    /\ CliIdle
    /\ CalcIdle
    /\ ApiIdle
    /\ AccountsIdle
    /\ BandsIdle
    /\ TcIdle
    /\ GdalStatsIdle
    /\ landuse_data \in LandUseRasters
    /\ landuse_analysis = Unset

SpecLandUse == InitLandUse /\ [][CalculateAllIndices]_vars

\* ===================================================== Engine B statistics
\* GDALEcologicalIndexCalculator.calculate_statistics, with index values in
\* tenths so that the thresholds -1, -0.2, 0, 0.2, 0.4, 1 are integers.
MaxGdalPixels == 3

\* the pixel values of the rasters: NaN, values inside [-1, 1] including both
\* ends, and one value outside
GdalValues == {NaN, Value(-10), Value(-2), Value(0), Value(3), Value(10), Value(12)}

GdalRasters ==
    {None} \cup {Raster(pixels) : pixels \in UNION {[1..n -> GdalValues] :
                                                        n \in 0..MaxGdalPixels}}

\* np.isfinite(p)
IsFinite(p) == p.valid

\* thresholds = [-1, -0.2, 0, 0.2, 0.4, 1]
gdal_thresholds == <<-10, -2, 0, 2, 4, 10>>

\* labels, worst to best
gdal_labels == <<"very_poor", "poor", "moderate", "good", "excellent">>

\* mask = (valid_data >= threshold) & (valid_data < thresholds[i+1])
mask(valid_data, i) ==
    {k \in 1..Len(valid_data) :
        valid_data[k] >= gdal_thresholds[i] /\ valid_data[k] < gdal_thresholds[i + 1]}

\* the five-class scheme is applied when min >= -1 and max <= 1
SchemeApplies(valid_data) ==
    Minimum(valid_data) >= -10 /\ Maximum(valid_data) <= 10

gdal_calculate_statistics(data) ==
    IF data = None THEN None
    ELSE LET valid_data == Values(SelectSeq(data.pixels, IsFinite))
             n == Len(valid_data)
             base == [min |-> Minimum(valid_data),
                      max |-> Maximum(valid_data),
                      valid_pixels |-> n,
                      total_pixels |-> Len(data.pixels)]
         IN IF n = 0 THEN None
            ELSE IF SchemeApplies(valid_data)
                 THEN base @@
                      [class_pixels |->
                           [i \in 1..Len(gdal_labels) |-> Cardinality(mask(valid_data, i))],
                       class_ratio |->
                           [i \in 1..Len(gdal_labels) |->
                                <<Cardinality(mask(valid_data, i)), n>>]]
                 ELSE base

GdalStatsUnchanged ==
    UNCHANGED <<orchVars, cli, calcVars, bandVars, tcVars, landuseVars, user_table,
                image_table, child_table, image_response, user_session, auth,
                account_response>>

GdalCalculateStatistics ==
    /\ gdal_stats = Unset
    /\ gdal_stats' = gdal_calculate_statistics(gdal_index_data)
    /\ UNCHANGED gdal_index_data
    /\ GdalStatsUnchanged

InitGdalStats ==
    /\ OrchestratorIdle
    /\ CliIdle
    /\ CalcIdle
    /\ ApiIdle
    /\ AccountsIdle
    /\ BandsIdle
    /\ TcIdle
    /\ LandUseIdle
    /\ gdal_index_data \in GdalRasters
    /\ gdal_stats = Unset

SpecGdalStats == InitGdalStats /\ [][GdalCalculateStatistics]_vars

\* ============================================================ the account API
UserRows(users) == {u \in Users : users[u] # NoRow}

\* UserViewSet.queryset = User.objects.all(); the view set defines no get_queryset
user_queryset(users, u) == UserRows(users)

AccountsUnchanged == UNCHANGED <<orchVars, cli, calcVars, engineVars, image_table, child_table, image_response>>

\* what the request body of login carries
Credentials == {"missing", "wrong", "right"}

\* UserViewSet.login (AllowAny): 400 without username or password, 401 when
\* authenticate() returns None, else login(request, user) and 200
Login ==
    \E u \in Users, credentials \in Credentials :
        /\ AccountsUnchanged
        /\ UNCHANGED <<user_table, user_session>>
        /\ IF credentials = "missing"
           THEN /\ account_response' = Reply("login", u, 400, {})
                /\ UNCHANGED auth
           ELSE IF credentials = "right" /\ user_table[u] # NoRow
                THEN /\ auth' = {u}
                     /\ account_response' = Reply("login", u, 200, {u})
                ELSE /\ account_response' = Reply("login", u, 401, {})
                     /\ UNCHANGED auth

\* UserViewSet.logout (IsAuthenticated): logout(request)
Logout ==
    \E u \in auth :
        /\ AccountsUnchanged
        /\ UNCHANGED <<user_table, user_session>>
        /\ auth' = {}
        /\ account_response' = Reply("logout", u, 200, {})

\* GET /users/ (IsAuthenticated)
ListUsers ==
    \E u \in auth :
        /\ AccountsUnchanged
        /\ UNCHANGED <<user_table, user_session, auth>>
        /\ account_response' = Reply("list", u, 200, user_queryset(user_table, u))

\* GET /users/<pk>/
RetrieveUser ==
    \E u \in auth, pk \in Users :
        /\ AccountsUnchanged
        /\ UNCHANGED <<user_table, user_session, auth>>
        /\ account_response' =
               IF pk \in user_queryset(user_table, u)
               THEN Reply("retrieve", u, 200, {pk}) ELSE Reply("retrieve", u, 404, {})

\* PUT/PATCH /users/<pk>/ with UserUpdateSerializer (role is not among its fields)
UpdateUser ==
    \E u \in auth, pk \in Users, email \in {"a", "b"} :
        /\ AccountsUnchanged
        /\ UNCHANGED <<user_session, auth>>
        /\ IF pk \in user_queryset(user_table, u)
           THEN /\ user_table' = [user_table EXCEPT ![pk] = [@ EXCEPT !.email = email]]
                /\ account_response' = Reply("update", u, 200, {pk})
           ELSE /\ UNCHANGED user_table
                /\ account_response' = Reply("update", u, 404, {})

\* DELETE /users/<pk>/; a session of the deleted user no longer authenticates
DestroyUser ==
    \E u \in auth, pk \in Users :
        /\ AccountsUnchanged
        /\ UNCHANGED user_session
        /\ IF pk \in user_queryset(user_table, u)
           THEN /\ user_table' = [user_table EXCEPT ![pk] = NoRow]
                /\ auth' = auth \ {pk}
                /\ account_response' = Reply("destroy", u, 204, {pk})
           ELSE /\ UNCHANGED <<user_table, auth>>
                /\ account_response' = Reply("destroy", u, 404, {})

\* POST /users/ (AllowAny) with UserCreateSerializer: role is a writable field
CreateUser ==
    \E pk \in Users, role \in ROLE_CHOICES :
        /\ AccountsUnchanged
        /\ UNCHANGED <<user_session, auth>>
        /\ user_table[pk] = NoRow
        /\ user_table' = [user_table EXCEPT ![pk] =
                             [role |-> role, is_superuser |-> FALSE, email |-> "a"]]
        /\ account_response' = Reply("create", pk, 201, {pk})

\* manage.py create_superuser: User.objects.create_superuser(..., role='admin')
\* unless the username is taken
CreateSuperuser ==
    \E pk \in Users :
        /\ AccountsUnchanged
        /\ UNCHANGED <<user_session, auth>>
        /\ user_table[pk] = NoRow
        /\ user_table' = [user_table EXCEPT ![pk] =
                             [role |-> "admin", is_superuser |-> TRUE, email |-> "a"]]
        /\ account_response' = Reply("create_superuser", pk, 0, {pk})

InitAccounts ==
    /\ OrchestratorIdle
    /\ CliIdle
    /\ CalcIdle
    /\ EngineIdle
    /\ user_table \in SeedTables
    /\ image_table = [m \in UploadIds |-> NoRow]
    /\ child_table = {}
    /\ image_response = NoResponse
    /\ AccountsIdle

NextAccounts ==
    \/ CreateSuperuser
    \/ Login
    \/ Logout
    \/ ListUsers
    \/ RetrieveUser
    \/ UpdateUser
    \/ DestroyUser
    \/ CreateUser

SpecAccounts == InitAccounts /\ [][NextAccounts]_vars

\* ================================================================== claims
IndicesJobs == {j \in Jobs : job[j].kind = "calculate_ecological_indices"}
RseiOnlyJobs == {j \in Jobs : job[j].kind = "calculate_rsei_only"}

Terminated(j) == job[j].pc \in {"returned", "raised"}

\* the job executed its loop, its RSEI block and image.save()
PastFinalSave(j) ==
    job[j].pc = "returned" \/ (job[j].pc \in {"except", "raised"} /\ job[j].failed_at = "finish")

RowsOf(image_id) == {r \in ecological_index : r.remote_sensing_image = image_id}
RowsOfType(image_id, t) == {r \in RowsOf(image_id) : r.index_type = t}
RseiResultsOf(image_id) == {rr \in rsei_result : rr.remote_sensing_image = image_id}
RowIds == {r.id : r \in ecological_index}

\* no other job was ever enqueued for the image of job j
OnlyJobOnImage(j) ==
    \A k \in Jobs \ {j} : job[k].pc # "idle" => job[k].image_id # job[j].image_id

\* the tables as they would be if no other user had ever uploaded anything
OwnImages(u, images) ==
    [m \in UploadIds |->
        IF images[m] # NoRow /\ images[m].uploaded_by = u THEN images[m] ELSE NoRow]

OwnChildren(u, images, children) ==
    {c \in children : c.image \in ImageRows(OwnImages(u, images))}

\* every list, retrieve and read-only domain action answers a caller who is
\* not an administrator the same with and without the other users' records
ReadsAreScoped(u) ==
    LET own == OwnImages(u, image_table)
        kids == OwnChildren(u, image_table, child_table)
    IN /\ \A table \in ChildTables \cup {"image"} :
             /\ ListResponse(user_table, u, image_table, child_table, table)
                    = ListResponse(user_table, u, own, kids, table)
             /\ \A pk \in UploadIds :
                    RetrieveResponse(user_table, u, image_table, child_table, table, pk)
                        = RetrieveResponse(user_table, u, own, kids, table, pk)
       /\ \A pk \in UploadIds :
             /\ IndicesResponse(user_table, u, image_table, child_table, pk)
                    = IndicesResponse(user_table, u, own, kids, pk)
             /\ RseiResultResponse(user_table, u, image_table, child_table, pk)
                    = RseiResultResponse(user_table, u, own, kids, pk)

\* C11 (as claimed): role-scoped visibility. For a caller who is neither
\* superuser nor 'admin', every list, retrieve and domain-action endpoint answers
\* exactly as it would if the records of the other users did not exist; an
\* administrator's lists hold every row.
C11_RoleScopedVisibility ==
    \A u \in Users :
        IF IsAdmin(user_table, u)
        THEN /\ ListResponse(user_table, u, image_table, child_table, "image").body
                    = ImageRows(image_table)
             /\ \A table \in ChildTables :
                    ListResponse(user_table, u, image_table, child_table, table).body
                        = {c \in child_table : c.table = table}
        ELSE /\ ReadsAreScoped(u)
             /\ \A pk \in UploadIds, id \in UploadIds :
                    CalculateResponse(user_table, u, image_table, pk, id)
                        = CalculateResponse(user_table, u, OwnImages(u, image_table), pk, id)

\* C12 (as claimed): in the account API an authenticated caller who is neither
\* admin nor superuser lists, retrieves, updates or deletes only their own User
\* row: such a request answers with no other row, and fails for another row.
C12_OwnAccountOnly ==
    [][\A u \in auth :
          ( /\ account_response' # account_response
            /\ account_response'.caller = u
            /\ account_response'.action \in {"list", "retrieve", "update", "destroy"}
            /\ ~IsAdmin(user_table, u) )
          => account_response'.body \subseteq {u}]_vars

\* C13 (as claimed): every successful login creates an active UserSession row
\* (no logout time) for the user, and after a logout no row of the user's
\* session is active.
C13_SessionAudit ==
    [][/\ ( /\ account_response' # account_response
            /\ account_response'.action = "login"
            /\ account_response'.code = 200 )
          => \E us \in user_session' :
                 /\ us.user \in account_response'.body
                 /\ us.is_active
                 /\ us.logout_time = "null"
       /\ ( /\ account_response' # account_response
            /\ account_response'.action = "logout" )
          => \A us \in user_session' :
                 us.user = account_response'.caller => ~us.is_active]_vars

\* the file names of the model that end, whatever the case of their letters,
\* with .tif, .tiff, .img, .hdf, .nc or .zip
NamesWithAllowedExtension ==
    {<<"a", ".", "t", "i", "f">>, <<"A", ".", "T", "I", "F">>, <<"a", ".", "T", "i", "f", "f">>,
     <<"a", ".", "i", "m", "g">>, <<"a", ".", "h", "d", "f">>, <<"a", ".", "n", "c">>,
     <<"a", ".", "Z", "I", "P">>}

\* C14: an upload whose other form fields are valid is accepted (201, one new
\* row owned by the caller) exactly when the file name ends, case-insensitively,
\* with one of the six extensions and the size is at most 50*1024*1024 bytes;
\* no upload is accepted otherwise; a .txt file is rejected whatever its size;
\* and a rejected upload answers 400 and leaves the image table as it was.
C14_UploadValidation ==
    /\ [](image_response.action = "upload" =>
            LET file == image_response.file
                accepted == image_response.code = 201
                acceptable == /\ file.name \in NamesWithAllowedExtension
                              /\ file.size <= 50 * 1024 * 1024
            IN /\ accepted => acceptable
               /\ (acceptable /\ image_response.fields_valid) => accepted
               /\ file.name = <<"a", ".", "t", "x", "t">> => ~accepted
               /\ ~accepted => (image_response.code = 400 /\ image_response.body = {}))
    /\ [][(image_response'.action = "upload" /\ image_response'.code # 201)
              => image_table' = image_table]_vars

\* a .tif of exactly 50 MB was accepted and its row exists
C14_Witness ==
    /\ image_response.action = "upload"
    /\ image_response.code = 201
    /\ image_response.file = [name |-> <<"a", ".", "t", "i", "f">>, size |-> 50 * 1024 * 1024]
    /\ \E m \in image_response.body : image_table[m].uploaded_by = image_response.caller

\* C15 (as claimed): no operation of the image API removes an image row or
\* changes its is_processed or processing_status: across every step in which
\* no user is deleted and no orchestrator job runs, each existing image row
\* stays, with both fields as they were.
C15_ApiKeepsRowAndStatus ==
    [][(user_table' = user_table /\ image_db' = image_db) =>
          \A m \in ImageRows(image_table) :
              /\ image_table'[m] # NoRow
              /\ image_table'[m].is_processed = image_table[m].is_processed
              /\ image_table'[m].processing_status = image_table[m].processing_status]_vars

\* C16 (as claimed): the preprocessing command returns 0 only when every stage
\* it executed (data-type processing, optional clip, optional resample)
\* succeeded; otherwise it returns 1 after printing the failure line.
C16_ExitCodeReflectsStages ==
    cli.pc = "done" =>
        /\ cli.exit_code \in {{0}, {1}}
        /\ cli.exit_code = {0} <=> cli.stages_failed = {}
        /\ cli.exit_code = {1} => cli.printed = "failed"

\* the values of FiveValueRaster(mu, sigma), as calculate_statistics sees them
FiveValues(mu, sigma) == Values(FiveValueRaster(mu, sigma).pixels)

\* C17 (as claimed): for a raster whose values are exactly mu+2sigma, mu+sigma,
\* mu, mu-sigma, mu-2sigma (sigma > 0), calculate_statistics puts the five
\* values in excellent, good, moderate, poor and bad, one pixel (0.0009 km2)
\* in each class.
C17_OnePixelPerClass ==
    \A mu \in (0 - MaxMu)..MaxMu, sigma \in 1..MaxSigma :
        (index_data = FiveValueRaster(mu, sigma) /\ stats # Unset) =>
            /\ stats.excellent_area = 9
            /\ stats.good_area = 9
            /\ stats.moderate_area = 9
            /\ stats.poor_area = 9
            /\ stats.bad_area = 9

\* C17 (amended): the thresholds come from the raster's own mean, mu, and its
\* own population standard deviation, sqrt(2)*sigma, so they lie at
\* mu +- 2.12 sigma and mu +- 0.71 sigma: mu+2sigma and mu+sigma are good, mu is
\* moderate, mu-sigma and mu-2sigma are poor; the areas are 0, 0.0018, 0.0009,
\* 0.0018 and 0 km2.
C17_ClassesFromOwnDeviation ==
    \A mu \in (0 - MaxMu)..MaxMu, sigma \in 1..MaxSigma :
        (index_data = FiveValueRaster(mu, sigma) /\ stats # Unset) =>
            /\ stats.mean_value = <<5 * mu, 5>>
            /\ stats.std_value_squared = <<250 * sigma * sigma, 125>>
            /\ ClassOf(FiveValues(mu, sigma), mu + 2 * sigma) = "good"
            /\ ClassOf(FiveValues(mu, sigma), mu + sigma) = "good"
            /\ ClassOf(FiveValues(mu, sigma), mu) = "moderate"
            /\ ClassOf(FiveValues(mu, sigma), mu - sigma) = "poor"
            /\ ClassOf(FiveValues(mu, sigma), mu - 2 * sigma) = "poor"
            /\ stats.excellent_area = 0
            /\ stats.good_area = 18
            /\ stats.moderate_area = 9
            /\ stats.poor_area = 18
            /\ stats.bad_area = 0

\* the statistics of the raster with mu = -2, sigma = 3 have been computed
C17_Witness ==
    /\ index_data = FiveValueRaster(-2, 3)
    /\ stats # Unset
    /\ stats # None
    /\ stats.min_value = -8
    /\ stats.max_value = 4

\* C18 (as claimed): whenever either engine returns an RSEI result, every pixel
\* that is valid in the input has an output value in [0, 1], also when the
\* first principal component is constant over the valid pixels, and every
\* pixel missing in the input is missing (NaN) in the output.
C18_RseiInUnitInterval ==
    (rsei_output # Unset /\ rsei_output # None) =>
        \A k \in 1..NumRseiPixels :
            IF rsei_input.pixels[k] = 0
            THEN rsei_output.rsei[k] = NaN
            ELSE /\ rsei_output.rsei[k].valid
                 /\ rsei_output.rsei[k].den > 0
                 /\ 0 <= rsei_output.rsei[k].num
                 /\ rsei_output.rsei[k].num <= rsei_output.rsei[k].den

\* C19: within one calculate-indices job the rows are created in the order of
\* the caller's list: when the job creates the row for list position k, the
\* rows it has created so far are all for positions before k and its RSEI row
\* does not exist yet; and when the job creates its RSEI row, the rows of all
\* four components, created by this same job, are already in the table.
C19_ListOrderThenRsei ==
    [][\A row \in ecological_index' \ ecological_index :
          LET j == row.id[1]
              k == row.id[2]
              earlier == {r2 \in ecological_index : r2.id[1] = j}
          IN job[j].kind = "calculate_ecological_indices" =>
                IF k = 0
                THEN /\ row.index_type = "rsei"
                     /\ \A c \in rsei_components :
                            \E r2 \in earlier :
                                /\ r2.index_type = c
                                /\ r2.id[2] >= 1
                                /\ r2.remote_sensing_image = row.remote_sensing_image
                ELSE /\ row.index_type = job[j].indices_list[k]
                     /\ \A r2 \in earlier : r2.id[2] >= 1 /\ r2.id[2] < k]_vars

\* a calculate-indices job has created five rows from its list and then its RSEI row
C19_Witness ==
    \E j \in Jobs :
        /\ job[j].kind = "calculate_ecological_indices"
        /\ job[j].indices_list = L5
        /\ {<<j, k>> : k \in 0..5} \subseteq {r.id : r \in ecological_index}

\* the job got through its setup and left at least one position of its list
\* without a row (unknown type, no data, or an exception in the iteration)
SkippedAnIndex(j) ==
    /\ job[j].failed_at # "setup"
    /\ \E k \in 1..Len(job[j].indices_list) : <<j, k>> \notin RowIds

TerminalStatuses == {"completed", "failed", "cancelled"}

DisplayName ==
    [code \in {"B2", "B3", "B4", "B5", "B6", "B7", "B02", "B03", "B04", "B08", "B11", "B12"} |->
        CASE code \in {"B2", "B02"} -> "Blue"
          [] code \in {"B3", "B03"} -> "Green"
          [] code \in {"B4", "B04"} -> "Red"
          [] code \in {"B5", "B08"} -> "NIR"
          [] code \in {"B6", "B11"} -> "SWIR1"
          [] code \in {"B7", "B12"} -> "SWIR2"]

\* C22 (as claimed): for every non-empty subset of band files found, the
\* mosaic holds exactly the found bands in the canonical order, and each
\* output band is described by the display name of the band code it was built
\* from.
C22_BandNamesFollowData ==
    (mosaic # Unset /\ mosaic # None) =>
        LET order == IF band_files.data_type = "landsat"
                     THEN landsat_band_order ELSE sentinel_band_order
            Position(code) == CHOOSE k \in 1..Len(order) : order[k] = code
            bands == mosaic.bands
        IN /\ {bands[i].data : i \in 1..Len(bands)} = band_files.found
           /\ \A i, k \in 1..Len(bands) :
                  i < k => Position(bands[i].data) < Position(bands[k].data)
           /\ \A i \in 1..Len(bands) : bands[i].description = DisplayName[bands[i].data]

\* C23 (as claimed): on an image with k >= 1 bands the Tasseled Cap transform
\* returns all six components, each the dot product of the first min(k, 6)
\* bands with the first min(k, 6) coefficients of its vector, also when k < 6.
C23_TruncatedDotProduct ==
    (tc_results # Unset /\ Len(tc_bands) >= 1) =>
        /\ tc_results # None
        /\ DOMAIN tc_results.results =
               {"brightness", "greenness", "wetness", "fourth", "fifth", "sixth"}
        /\ \A c \in DOMAIN tc_results.results :
               LET m == IF Len(tc_bands) < 6 THEN Len(tc_bands) ELSE 6
               IN tc_results.results[c] =
                      SumOf([i \in 1..m |-> tc_bands[i] * tc_coefficients[c][i]])

\* C24 (as claimed): for every loaded raster, also one with valid pixels whose
\* value is outside the class table, fragility_index is the sum over the
\* present classes of p_i * fragility_i with p_i the class pixel count divided
\* by the number of valid (non-sentinel) pixels, the denominator that the
\* class statistics, the unused-land ratio and the development ratio use.
C24_FragilityOverValidArea ==
    (landuse_analysis # Unset /\ landuse_analysis.statistics.valid_pixels > 0) =>
        LET valid == landuse_analysis.statistics.valid_pixels
            weighted == SumOf([class_id \in 1..8 |->
                                  landuse_analysis.statistics.classes[class_id].pixels
                                      * landuse_classes[class_id].fragility])
            index == landuse_analysis.fragility.fragility_index
        IN /\ index[1] * (10 * valid) = weighted * index[2]
           /\ landuse_analysis.unused_land.total_area = valid
           /\ landuse_analysis.development.total_area = valid

\* C25 (as claimed): when calculate_indices or calculate_rsei accepts a request
\* (202), the image the job is enqueued for is the image whose id the request
\* body gave and the serializer validated.
C25_JobRunsOnValidatedImage ==
    (image_response.action = "calculate" /\ image_response.code = 202) =>
        image_response.body = {image_response.remote_sensing_image_id}

C29_AdminOnlyByProvisioning ==
    [][\A pk \in Users :
          ( /\ user_table[pk] = NoRow
            /\ user_table'[pk] # NoRow
            /\ user_table'[pk].role = "admin" ) =>
              \/ account_response'.action = "create_superuser"
              \/ \E a \in auth : user_table[a] # NoRow /\ IsAdmin(user_table, a)]_vars

\* C30 (as claimed): whenever Engine B applies the fixed five-class scheme,
\* every valid pixel, one of value exactly 1 or exactly -1 included, is counted
\* in exactly one class: the five per-class pixel counts sum to valid_pixels
\* (and so the five ratios sum to 1).
C30_FiveClassesCoverValidPixels ==
    (gdal_stats # Unset /\ "class_pixels" \in DOMAIN gdal_stats) =>
        SumOf(gdal_stats.class_pixels) = gdal_stats.valid_pixels

C2_EndToEnd ==
    \A j \in IndicesJobs :
        ( /\ Terminated(j)
          /\ job[j].indices_list = L5
          /\ raster[job[j].image_id] = "bands6"
          /\ OnlyJobOnImage(j) ) =>
            LET id == job[j].image_id IN
            /\ \A t \in Range(L5) : Cardinality(RowsOfType(id, t)) = 1
            /\ Cardinality(RseiResultsOf(id)) = 1
            /\ image_db[id].is_processed

\* C3: at most one EcologicalIndex row per (image, index_type), in every state.
C3_UniquePerImageAndType ==
    \A r1, r2 \in ecological_index :
        (r1.remote_sensing_image = r2.remote_sensing_image /\ r1.index_type = r2.index_type)
            => r1 = r2

\* a job tried to insert a row for a pair that was already persisted
C3_Witness ==
    \E j \in Jobs : job[j].conflicts # {} /\ Terminated(j)

HasRseiRows(j) ==
    LET id == job[j].image_id
        calc == job[j].calculated_indices
    IN /\ RowsOfType(id, "rsei") # {}
       /\ \E rr \in RseiResultsOf(id) :
             /\ rr.greenness = CalculatedRow(calc, "greenness")
             /\ rr.wetness = CalculatedRow(calc, "wetness")
             /\ rr.dryness = CalculatedRow(calc, "dryness")
             /\ rr.heat = CalculatedRow(calc, "heat")
             /\ rr.rsei_result \in {r.id : r \in RowsOfType(id, "rsei")}

RseiResultWellFormed(rr) ==
    \A f \in {"greenness", "wetness", "dryness", "heat", "rsei"} :
        LET ref == IF f = "rsei" THEN rr.rsei_result ELSE rr[f] IN
        \E r \in RowsOfType(rr.remote_sensing_image, f) : r.id = ref

C8_RseiResultOnce ==
    /\ [](\A a, b \in rsei_result :
              /\ RseiResultWellFormed(a)
              /\ a.remote_sensing_image = b.remote_sensing_image => a = b)
    /\ [][rsei_result \subseteq rsei_result']_vars

\* an RSEIResult row exists and a second run of the five-index list on the same
\* image has also gone through its RSEI block
C8_Witness ==
    \E rr \in rsei_result :
        \E j \in IndicesJobs :
            /\ j # rr.id
            /\ job[j].image_id = rr.remote_sensing_image
            /\ job[j].indices_list = L5
            /\ PastFinalSave(j)

\* the job loaded its image and went on to compute RSEI
ReachedBody(j) == job[j].pc = "returned" \/ job[j].failed_at \in {"body", "finish"}

C10_CalculateIndicesResponse ==
    response.action = "calculate_indices" =>
        LET valid == /\ response.pk \in Images
                     /\ response.remote_sensing_image_id \in Images
                     /\ ValidIndices(response.indices)
        IN /\ response.code = 202 =>
                 /\ valid
                 /\ \E j \in response.task_id : job[j].indices_list = response.indices
           /\ ~valid => (response.code = 400 /\ response.task_id = {})

====
